---- MODULE Spec2Model ----
(***************************************************************************)
(* A model of nanofold's geometric core: the Frame algebra, BackboneUpdate *)
(* and InvariantPointAttention (src/nanofold/model/                        *)
(* invariant_point_attention.py).                                          *)
(*                                                                         *)
(* Tensors are modelled with torch's shape semantics (unsqueeze, squeeze,  *)
(* transpose, permute, broadcasting matmul, sum, cat, view), so that every *)
(* method is translated line by line and a shape error of the source is a  *)
(* shape error of the model.  Real numbers are exact rationals <<n, d>> in *)
(* lowest terms; the transcendental library functions (exp, softplus,      *)
(* sqrt) are evaluated in fixed point and then treated as exact rationals. *)
(***************************************************************************)
EXTENDS Integers, Sequences, FiniteSets, TLC

(***************************************************************************)
(* Bounds of the model.                                                    *)
(***************************************************************************)
MaxN == 2
MaxSeed == 1

(***************************************************************************)
(* Exact rational arithmetic.                                              *)
(***************************************************************************)
Abs(x) == IF x < 0 THEN -x ELSE x

RECURSIVE Gcd(_, _)
Gcd(a, b) == IF b = 0 THEN a ELSE Gcd(b, a % b)

Q(n, d) ==
    LET s == IF d < 0 THEN -1 ELSE 1
        g == Gcd(Abs(n), Abs(d))
    IN  <<(s * n) \div g, (s * d) \div g>>

Rat(n) == <<n, 1>>
Zero == Rat(0)
One == Rat(1)

RAdd(x, y) ==
    IF x[2] = y[2] THEN Q(x[1] + y[1], x[2])
    ELSE LET g == Gcd(x[2], y[2])
         IN  Q(x[1] * (y[2] \div g) + y[1] * (x[2] \div g), x[2] * (y[2] \div g))
RNeg(x) == <<-x[1], x[2]>>
RSub(x, y) == RAdd(x, RNeg(y))
RMul(x, y) ==
    LET g1 == Gcd(Abs(x[1]), y[2])
        g2 == Gcd(Abs(y[1]), x[2])
    IN  IF x[1] = 0 \/ y[1] = 0 THEN Zero
        ELSE <<(x[1] \div g1) * (y[1] \div g2), (x[2] \div g2) * (y[2] \div g1)>>
RLess(x, y) == x[1] * y[2] < y[1] * x[2]

\* floor(x * scale) for a rational x, without forming x[1] * scale
Fix(x, scale) == (x[1] \div x[2]) * scale + ((x[1] % x[2]) * scale) \div x[2]

RECURSIVE ISqrtIn(_, _, _)
ISqrtIn(n, lo, hi) ==
    IF lo >= hi THEN lo
    ELSE LET mid == (lo + hi + 1) \div 2
         IN  IF mid * mid <= n THEN ISqrtIn(n, mid, hi) ELSE ISqrtIn(n, lo, mid - 1)
\* floor(sqrt(n)) for 0 <= n < 2^30
ISqrt(n) == ISqrtIn(n, 0, 32767)

(***************************************************************************)
(* Tensors: [ok, shape, data], data in row-major order; indices are        *)
(* 0-based as in the source.  ShapeError is what a raising torch call      *)
(* yields, and every operation propagates it as an exception would.        *)
(***************************************************************************)
ShapeError == [ok |-> FALSE, shape |-> <<>>, data |-> <<>>]

\* a function over 1..n, evaluated once (comparing it enumerates it)
Strict(f) == IF f = <<>> THEN f ELSE f

\* the tensor of the given shape and row-major data
Tensor(shape, data) == [ok |-> TRUE, shape |-> shape, data |-> Strict(data)]

RECURSIVE Prod(_)
Prod(s) == IF s = <<>> THEN 1 ELSE Head(s) * Prod(Tail(s))

RECURSIVE Ravel(_, _)
Ravel(s, ix) ==
    IF s = <<>> THEN 0 ELSE ix[1] * Prod(Tail(s)) + Ravel(Tail(s), Tail(ix))

RECURSIVE Unravel(_, _)
Unravel(s, k) ==
    IF s = <<>> THEN <<>>
    ELSE LET p == Prod(Tail(s)) IN <<k \div p>> \o Unravel(Tail(s), k % p)

\* the 0-based index of the k-th element (k from 1) of a tensor of shape s
Index(s, k) == Unravel(s, k - 1)

RECURSIVE Without(_, _)
Without(s, x) ==
    IF s = <<>> THEN <<>>
    ELSE IF Head(s) = x THEN Without(Tail(s), x) ELSE <<Head(s)>> \o Without(Tail(s), x)

RECURSIVE RSum(_, _)
\* s[1] + ... + s[n]
RSum(s, n) == IF n = 0 THEN Zero ELSE RAdd(RSum(s, n - 1), s[n])

Rank(t) == Len(t.shape)
At(t, ix) == t.data[Ravel(t.shape, ix) + 1]

\* element of t at the index ix of a shape t broadcasts to (aligned right)
BAt(t, ix) ==
    LET r == Len(t.shape)
        off == Len(ix) - r
    IN  At(t, [d \in 1..r |-> IF t.shape[d] = 1 THEN 0 ELSE ix[off + d]])

\* torch dimension arguments: -r..r-1 (a 0-dim tensor accepts -1 and 0)
DimOk(d, r) == IF r = 0 THEN d \in {-1, 0} ELSE d >= -r /\ d < r
Dim(d, r) == IF d < 0 THEN d + r ELSE d

Insert(s, p, x) == SubSeq(s, 1, p) \o <<x>> \o SubSeq(s, p + 1, Len(s))
Remove(s, p) == SubSeq(s, 1, p - 1) \o SubSeq(s, p + 1, Len(s))

\* Tensor.unsqueeze(dim)
Unsqueeze(t, dim) ==
    IF ~t.ok THEN ShapeError
    ELSE LET r == Rank(t)
             d == IF dim < 0 THEN dim + r + 1 ELSE dim
         IN  IF d < 0 \/ d > r THEN ShapeError
             ELSE [t EXCEPT !.shape = Insert(t.shape, d, 1)]

\* Tensor.squeeze(dim): removes the axis only when it has size 1
Squeeze(t, dim) ==
    IF ~t.ok THEN ShapeError
    ELSE LET r == Rank(t) IN
         IF ~DimOk(dim, r) THEN ShapeError
         ELSE IF r = 0 THEN t
         ELSE LET d == Dim(dim, r) + 1 IN
              IF t.shape[d] = 1 THEN [t EXCEPT !.shape = Remove(t.shape, d)] ELSE t

\* Tensor.squeeze(): removes every axis of size 1
SqueezeAll(t) ==
    IF ~t.ok THEN ShapeError
    ELSE [t EXCEPT !.shape = Without(t.shape, 1)]

\* the data of t.permute(*dims) of shape sh
PermuteData(t, dims, sh) ==
    LET r == Len(sh) IN
    [k \in 1..Prod(sh) |->
        At(t, [d \in 1..r |-> Index(sh, k)[CHOOSE j \in 1..r : dims[j] + 1 = d]])]

\* Tensor.permute(*dims), dims 0-based
Permute(t, dims) ==
    IF ~t.ok THEN ShapeError
    ELSE LET r == Rank(t) IN
         IF Len(dims) # r \/ {dims[k] + 1 : k \in 1..r} # 1..r THEN ShapeError
         ELSE Tensor([k \in 1..r |-> t.shape[dims[k] + 1]],
                     PermuteData(t, dims, [k \in 1..r |-> t.shape[dims[k] + 1]]))

\* Tensor.transpose(dim0, dim1)
Transpose(t, dim0, dim1) ==
    IF ~t.ok THEN ShapeError
    ELSE LET r == Rank(t) IN
         IF ~DimOk(dim0, r) \/ ~DimOk(dim1, r) THEN ShapeError
         ELSE IF r = 0 THEN t
         ELSE Permute(t, [k \in 1..r |-> IF k = Dim(dim0, r) + 1 THEN Dim(dim1, r)
                                         ELSE IF k = Dim(dim1, r) + 1 THEN Dim(dim0, r)
                                         ELSE k - 1])

\* broadcasting of two shapes, aligned right
BDim(s, k, r) == IF k > r - Len(s) THEN s[k - (r - Len(s))] ELSE 1
Max(a, b) == IF a > b THEN a ELSE b
BroadcastOk(s1, s2) ==
    LET r == Max(Len(s1), Len(s2)) IN
    \A k \in 1..r : BDim(s1, k, r) = BDim(s2, k, r) \/ BDim(s1, k, r) = 1 \/ BDim(s2, k, r) = 1
BroadcastShape(s1, s2) ==
    LET r == Max(Len(s1), Len(s2)) IN
    [k \in 1..r |-> IF BDim(s1, k, r) = 1 THEN BDim(s2, k, r) ELSE BDim(s1, k, r)]

\* the operands of an elementwise binary operation broadcast together
ZipOk(a, b) == a.ok /\ b.ok /\ BroadcastOk(a.shape, b.shape)

AddData(a, b, sh) == [k \in 1..Prod(sh) |-> RAdd(BAt(a, Index(sh, k)), BAt(b, Index(sh, k)))]
SubData(a, b, sh) == [k \in 1..Prod(sh) |-> RSub(BAt(a, Index(sh, k)), BAt(b, Index(sh, k)))]
MulData(a, b, sh) == [k \in 1..Prod(sh) |-> RMul(BAt(a, Index(sh, k)), BAt(b, Index(sh, k)))]

\* a + b, a - b, a * b with broadcasting
Add(a, b) ==
    IF ~ZipOk(a, b) THEN ShapeError
    ELSE Tensor(BroadcastShape(a.shape, b.shape), AddData(a, b, BroadcastShape(a.shape, b.shape)))
Sub(a, b) ==
    IF ~ZipOk(a, b) THEN ShapeError
    ELSE Tensor(BroadcastShape(a.shape, b.shape), SubData(a, b, BroadcastShape(a.shape, b.shape)))
Mul(a, b) ==
    IF ~ZipOk(a, b) THEN ShapeError
    ELSE Tensor(BroadcastShape(a.shape, b.shape), MulData(a, b, BroadcastShape(a.shape, b.shape)))

\* x * t for a scalar x, and -t
Scale(x, t) ==
    IF ~t.ok THEN ShapeError
    ELSE Tensor(t.shape, [k \in 1..Len(t.data) |-> RMul(x, t.data[k])])
Neg(t) ==
    IF ~t.ok THEN ShapeError
    ELSE Tensor(t.shape, [k \in 1..Len(t.data) |-> RNeg(t.data[k])])

\* entry [bi, i, j] of a @ b: the sum over x of a[bi, i, x] * b[bi, x, j];
\* a 1-D a is the row a[x], a 1-D b is the column b[x]
MatmulEntry(a, b, ix, n) ==
    LET nb == Len(ix) - 2
        bi == SubSeq(ix, 1, nb)
    IN  RSum([x \in 1..n |-> RMul(BAt(a, bi \o <<ix[nb + 1], x - 1>>),
                                  BAt(b, IF Rank(b) = 1 THEN <<x - 1>>
                                         ELSE bi \o <<x - 1, ix[nb + 2]>>))], n)

MatmulData(a, b, sh, n) == [k \in 1..Prod(sh) |-> MatmulEntry(a, b, Index(sh, k), n)]

\* the product of shape sh computed by torch.matmul, without the axis it
\* added to a 1-D first operand (axis -2) or to a 1-D second operand (axis -1)
MatmulTensor(a, b, sh, n) ==
    Tensor(IF Rank(a) = 1 /\ Rank(b) = 1 THEN <<>>
           ELSE IF Rank(a) = 1 THEN Remove(sh, Len(sh) - 1)
           ELSE IF Rank(b) = 1 THEN Remove(sh, Len(sh))
           ELSE sh,
           MatmulData(a, b, sh, n))

\* torch.matmul of operands whose shapes are sa and sb once a 1-D operand
\* has been promoted to a matrix: batch axes broadcast
MatmulPromoted(a, b, sa, sb) ==
    IF sb[Len(sb) - 1] # sa[Len(sa)]
           \/ ~BroadcastOk(SubSeq(sa, 1, Len(sa) - 2), SubSeq(sb, 1, Len(sb) - 2))
    THEN ShapeError
    ELSE MatmulTensor(a, b,
                      BroadcastShape(SubSeq(sa, 1, Len(sa) - 2), SubSeq(sb, 1, Len(sb) - 2))
                          \o <<sa[Len(sa) - 1], sb[Len(sb)]>>,
                      sa[Len(sa)])

\* torch.matmul: a 1-D first operand is promoted to a row, a 1-D second
\* operand to a column; two 1-D operands give the 0-D dot product
Matmul(a, b) ==
    IF ~a.ok \/ ~b.ok THEN ShapeError
    ELSE IF Rank(a) = 0 \/ Rank(b) = 0 THEN ShapeError
    ELSE MatmulPromoted(a, b,
                        IF Rank(a) = 1 THEN <<1>> \o a.shape ELSE a.shape,
                        IF Rank(b) = 1 THEN b.shape \o <<1>> ELSE b.shape)

\* the data of torch.sum(t, dim=d-1) of shape sh
SumData(t, d, sh) ==
    [k \in 1..Prod(sh) |->
        RSum([x \in 1..t.shape[d] |-> At(t, Insert(Index(sh, k), d - 1, x - 1))], t.shape[d])]

\* torch.sum(t, dim=dim)
Sum(t, dim) ==
    IF ~t.ok THEN ShapeError
    ELSE LET r == Rank(t) IN
         IF ~DimOk(dim, r) THEN ShapeError
         ELSE IF r = 0 THEN t
         ELSE Tensor(Remove(t.shape, Dim(dim, r) + 1),
                     SumData(t, Dim(dim, r) + 1, Remove(t.shape, Dim(dim, r) + 1)))

\* Tensor.view / Tensor.reshape with at most one inferred (-1) size
View(t, shape) ==
    IF ~t.ok THEN ShapeError
    ELSE LET n == Prod(t.shape)
             known == Prod(Without(shape, -1))
             infer == Cardinality({k \in 1..Len(shape) : shape[k] = -1})
         IN  IF infer > 1 THEN ShapeError
             ELSE IF infer = 1 THEN
                 IF known = 0 \/ n % known # 0 THEN ShapeError
                 ELSE [t EXCEPT !.shape = [k \in 1..Len(shape) |->
                          IF shape[k] = -1 THEN n \div known ELSE shape[k]]]
             ELSE IF known # n THEN ShapeError
             ELSE [t EXCEPT !.shape = shape]

\* t[i] along the first axis
Select(t, i) ==
    IF ~t.ok \/ Rank(t) = 0 THEN ShapeError
    ELSE IF i < 0 \/ i >= t.shape[1] THEN ShapeError
    ELSE Tensor(Tail(t.shape),
                SubSeq(t.data, i * Prod(Tail(t.shape)) + 1, (i + 1) * Prod(Tail(t.shape))))

Cat2Data(a, b, sh) ==
    LET r == Len(sh) IN
    [k \in 1..Prod(sh) |->
        IF Index(sh, k)[r] < a.shape[r] THEN At(a, Index(sh, k))
        ELSE At(b, [Index(sh, k) EXCEPT ![r] = Index(sh, k)[r] - a.shape[r]])]

\* torch.cat(ts, dim=-1)
Cat2(a, b) ==
    IF ~a.ok \/ ~b.ok THEN ShapeError
    ELSE LET r == Rank(a) IN
         IF r = 0 \/ Rank(b) # r THEN ShapeError
         ELSE IF SubSeq(a.shape, 1, r - 1) # SubSeq(b.shape, 1, r - 1) THEN ShapeError
         ELSE Tensor([a.shape EXCEPT ![r] = a.shape[r] + b.shape[r]],
                     Cat2Data(a, b, [a.shape EXCEPT ![r] = a.shape[r] + b.shape[r]]))
RECURSIVE CatLast(_)
CatLast(ts) == IF Len(ts) = 1 THEN ts[1] ELSE Cat2(CatLast(SubSeq(ts, 1, Len(ts) - 1)), ts[Len(ts)])

(***************************************************************************)
(* torch library functions, in fixed point with FixOne steps per unit.     *)
(***************************************************************************)
FixOne == 2 ^ 6

\* 2^(-f / FixOne) * FixOne for 0 <= f <= FixOne (quadratic through both ends)
Exp2Frac(f) == (262144 - 2816 * f + 12 * f * f) \div 4096

RECURSIVE Halve(_, _)
Halve(v, k) == IF k = 0 \/ v = 0 THEN v ELSE Halve(v \div 2, k - 1)

\* exp(x) * FixOne for a rational x <= 0: exp(x) = 2^(x * log2(e)), log2(e) ~ 92/64
ExpFix(x) ==
    LET y == Fix(RMul(RNeg(x), Q(92, 64)), FixOne)
    IN  Halve(Exp2Frac(y % FixOne), y \div FixOne)

\* nn.Softplus: log(1 + exp(x)), tabulated at the integers -1..3
Softplus(x) ==
    LET v == CASE x = Rat(-1) -> 20 [] x = Rat(0) -> 44 [] x = Rat(1) -> 84
               [] x = Rat(2) -> 136 [] x = Rat(3) -> 195
    IN  Q(v, FixOne)

\* 1 / sqrt(n)
RSqrt(n) == Q(ISqrt((FixOne * FixOne) \div n), FixOne)

RECURSIVE RMaxOf(_, _)
RMaxOf(s, n) ==
    IF n = 1 THEN s[1]
    ELSE LET m == RMaxOf(s, n - 1) IN IF RLess(m, s[n]) THEN s[n] ELSE m

\* the row of t along its last axis at the leading index ix
Row(t, ix) == [k \in 1..t.shape[Rank(t)] |-> At(t, ix \o <<k - 1>>)]

\* exp(t[ix] - max of the row of ix) * FixOne
SoftmaxNumerator(t, ix) ==
    ExpFix(RSub(At(t, ix), RMaxOf(Row(t, SubSeq(ix, 1, Len(ix) - 1)), t.shape[Rank(t)])))

SoftmaxNumerators(t) ==
    Tensor(t.shape, [k \in 1..Prod(t.shape) |-> Rat(SoftmaxNumerator(t, Index(t.shape, k)))])

\* e normalised along its last axis, z = e.sum(-1)
Normalised(e, z) ==
    Tensor(e.shape, [k \in 1..Prod(e.shape) |->
        Q(e.data[k][1], At(z, SubSeq(Index(e.shape, k), 1, Rank(e) - 1))[1])])

\* nn.functional.softmax(t, dim=-1): exp(x - max) normalised exactly
Softmax(t) ==
    IF ~t.ok THEN ShapeError
    ELSE IF Rank(t) = 0 THEN [t EXCEPT !.data = <<One>>]
    ELSE Normalised(SoftmaxNumerators(t), Sum(SoftmaxNumerators(t), -1))

\* the square of x in fixed point
FixSquare(x) == Rat(Fix(x, FixOne) * Fix(x, FixOne))

\* the norm of the row of t at the leading index ix
RowNorm(t, ix) ==
    Q(ISqrt(RSum([k \in 1..t.shape[Rank(t)] |-> FixSquare(At(t, ix \o <<k - 1>>))],
                 t.shape[Rank(t)])[1]), FixOne)

NormData(t, sh) == [k \in 1..Prod(sh) |-> RowNorm(t, Index(sh, k))]

\* torch.linalg.vector_norm(t, dim=-1)
VectorNorm(t) ==
    IF ~t.ok THEN ShapeError
    ELSE IF Rank(t) = 0 THEN [t EXCEPT !.data = <<Q(Abs(t.data[1][1]), t.data[1][2])>>]
    ELSE Tensor(SubSeq(t.shape, 1, Rank(t) - 1), NormData(t, SubSeq(t.shape, 1, Rank(t) - 1)))

\* nn.Softplus applied elementwise
SoftplusOf(t) ==
    IF ~t.ok THEN ShapeError
    ELSE Tensor(t.shape, [k \in 1..Len(t.data) |-> Softplus(t.data[k])])

\* nn.Linear without bias: x @ W^T
LinearNoBias(x, w) == Matmul(x, Transpose(w, 0, 1))
\* nn.Linear: x @ W^T + b
Linear(x, w, b) == Add(LinearNoBias(x, w), b)

(***************************************************************************)
(* nanofold.util.LinearWithView: a bias-free linear layer whose output is  *)
(* viewed as [..., *out_features].                                         *)
(***************************************************************************)
LinearWithView(x, w, out_features) ==
    LET y == LinearNoBias(x, w)
    IN  IF ~x.ok \/ ~y.ok THEN ShapeError
        ELSE View(y, SubSeq(x.shape, 1, Rank(x) - 1) \o out_features)

(***************************************************************************)
(* nanofold.frame.Frame: rotations [..., 3, 3] and translations [..., 3].  *)
(***************************************************************************)
Frame(rotations, translations) == [rotations |-> rotations, translations |-> translations]

\* Frame.apply: global = R . local + t
FrameApply(frames, points) ==
    Add(Squeeze(Matmul(frames.rotations, Unsqueeze(points, -1)), -1), frames.translations)

\* Frame.inverse: rotation R^T, translation -(R^T . t)
FrameInverse(frames) ==
    LET rt == Transpose(frames.rotations, -2, -1)
    IN  Frame(rt, Neg(Squeeze(Matmul(rt, Unsqueeze(frames.translations, -1)), -1)))

\* compose that rotates the inner translation but forgets to add the outer one
FrameComposeNoShift(outer, inner) ==
    Frame(Matmul(outer.rotations, inner.rotations),
          Squeeze(Matmul(outer.rotations, Unsqueeze(inner.translations, -1)), -1))

\* Frame.compose(outer, inner): rotation R_o . R_i, translation R_o . t_i + t_o
FrameCompose(outer, inner) ==
    Frame(Matmul(outer.rotations, inner.rotations), FrameApply(outer, inner.translations))

\* frames[:, None, None, ...]
FrameIndexHeads(frames) ==
    Frame(Unsqueeze(Unsqueeze(frames.rotations, 1), 1),
          Unsqueeze(Unsqueeze(frames.translations, 1), 1))

\* frames[i]
FrameAt(frames, i) ==
    Frame(Select(frames.rotations, i), Select(frames.translations, i))

(***************************************************************************)
(* InvariantPointAttention.  m is the module: its configuration and its    *)
(* parameters (weights of shape [out_features, in_features]).              *)
(***************************************************************************)
\* out.in_features
OutWidth(c) == c.H * (c.D + c.E + c.Pv * (3 + 1))

ScaleSingleRep(c) == RSqrt(c.E)
ScaleFrame(c) == RNeg(RSqrt(18 * c.Pq))

Query(m, single_rep) == LinearWithView(single_rep, m.query, <<m.c.H, m.c.E>>)
Key(m, single_rep) == LinearWithView(single_rep, m.key, <<m.c.H, m.c.E>>)
Value(m, single_rep) == LinearWithView(single_rep, m.value, <<m.c.H, m.c.E>>)
QueryPoints(m, single_rep) == LinearWithView(single_rep, m.query_points, <<m.c.H, m.c.Pq, 3>>)
KeyPoints(m, single_rep) == LinearWithView(single_rep, m.key_points, <<m.c.H, m.c.Pq, 3>>)
ValuePoints(m, single_rep) == LinearWithView(single_rep, m.value_points, <<m.c.H, m.c.Pv, 3>>)
Bias(m, pair_rep) == LinearNoBias(pair_rep, m.bias)

SingleRepWeight(m, single_rep) ==
    LET q == Query(m, single_rep)
        k == Key(m, single_rep)
        weight == Matmul(Scale(ScaleSingleRep(m.c), Unsqueeze(q, -2)), Permute(k, <<1, 2, 0>>))
    IN  Squeeze(weight, -2)

PairRepWeight(m, pair_rep) == Transpose(Bias(m, pair_rep), -2, -1)

FrameWeight(m, frames, single_rep) ==
    LET qp == QueryPoints(m, single_rep)
        kp == KeyPoints(m, single_rep)
        local_qp == FrameApply(frames, Transpose(qp, 0, -2))
        local_kp == FrameApply(frames, Transpose(kp, 0, -2))
        difference == Sub(Unsqueeze(local_qp, -2), Unsqueeze(local_kp, -3))
        squared_distance == SqueezeAll(Matmul(Unsqueeze(difference, -2), Unsqueeze(difference, -1)))
        weight == Transpose(Sum(squared_distance, 0), 0, 1)
    IN  Mul(Scale(ScaleFrame(m.c), Unsqueeze(SoftplusOf(m.scale_head), -1)), weight)

SingleRepAttention(m, weight, single_rep) ==
    LET v == Value(m, single_rep)
    IN  Squeeze(Matmul(Unsqueeze(weight, -2), Transpose(v, 0, 1)), -2)

PairRepAttention(m, weight, pair_rep) ==
    Squeeze(Matmul(Unsqueeze(weight, -2), Unsqueeze(pair_rep, 1)), -2)

\* frame_attention that returns the attended points in the global frame
FrameAttentionGlobal(m, weight, frames, single_rep) ==
    LET vp == ValuePoints(m, single_rep)
        local_vp == FrameApply(frames, Permute(vp, <<1, 2, 0, 3>>))
        local_attention == Matmul(Unsqueeze(Unsqueeze(weight, -2), -2), local_vp)
    IN  Squeeze(local_attention, -2)

\* frame_attention that maps back with the frames instead of their inverses
FrameAttentionNoInverse(m, weight, frames, single_rep) ==
    LET vp == ValuePoints(m, single_rep)
        local_vp == FrameApply(frames, Permute(vp, <<1, 2, 0, 3>>))
        local_attention == Matmul(Unsqueeze(Unsqueeze(weight, -2), -2), local_vp)
    IN  FrameApply(FrameIndexHeads(frames), Squeeze(local_attention, -2))

\* frame_attention that attends over the value points without first placing
\* them in the global frame
FrameAttentionLocalValues(m, weight, frames, single_rep) ==
    LET vp == ValuePoints(m, single_rep)
        local_attention == Matmul(Unsqueeze(Unsqueeze(weight, -2), -2), Permute(vp, <<1, 2, 0, 3>>))
        frames_inverse == FrameIndexHeads(FrameInverse(frames))
    IN  FrameApply(frames_inverse, Squeeze(local_attention, -2))

FrameAttention(m, weight, frames, single_rep) ==
    LET vp == ValuePoints(m, single_rep)
        local_vp == FrameApply(frames, Permute(vp, <<1, 2, 0, 3>>))
        local_attention == Matmul(Unsqueeze(Unsqueeze(weight, -2), -2), local_vp)
        frames_inverse == FrameIndexHeads(FrameInverse(frames))
    IN  FrameApply(frames_inverse, Squeeze(local_attention, -2))

\* the softmax-normalised sum of the three score terms (forward, lines 105-110)
AttentionWeight(m, single_rep, pair_rep, frames) ==
    Softmax(Add(Add(SingleRepWeight(m, single_rep), PairRepWeight(m, pair_rep)),
                FrameWeight(m, frames, single_rep)))

\* the concatenated attention before the out projection (forward, lines 112-125)
Concatenated(m, weight, single_rep, pair_rep, frames) ==
    LET len_seq == single_rep.shape[1]
        single_rep_attention == SingleRepAttention(m, weight, single_rep)
        pair_rep_attention == PairRepAttention(m, weight, pair_rep)
        frame_attention == FrameAttention(m, weight, frames, single_rep)
        frame_norm_attention == VectorNorm(frame_attention)
    IN  CatLast(<<single_rep_attention, pair_rep_attention,
                  View(frame_attention, <<len_seq, m.c.H, -1>>), frame_norm_attention>>)

Forward(m, single_rep, pair_rep, frames) ==
    LET weight == AttentionWeight(m, single_rep, pair_rep, frames)
        len_seq == single_rep.shape[1]
        attention == Concatenated(m, weight, single_rep, pair_rep, frames)
    IN  Linear(View(attention, <<len_seq, -1>>), m.out_w, m.out_b)

(***************************************************************************)
(* BackboneUpdate: one affine projection to 6 scalars; the first three are *)
(* (b, c, d) of the quaternion normalize((1, b, c, d)), the last three the *)
(* translation.                                                            *)
(***************************************************************************)
\* the squared norm of a quaternion
QuatNorm2(q) == RAdd(RAdd(RMul(q[1], q[1]), RMul(q[2], q[2])), RAdd(RMul(q[3], q[3]), RMul(q[4], q[4])))

RInv(x) == Q(x[2], x[1])
Twice(x) == RAdd(x, x)

\* the quaternion (1, b, c, d) before normalisation
Quaternion(u) == <<One, u[1], u[2], u[3]>>

\* the quaternion-to-matrix formula applied without normalising q
QuatToRotUnnormalised(q) ==
    << <<RSub(RAdd(RMul(q[1], q[1]), RMul(q[2], q[2])), RAdd(RMul(q[3], q[3]), RMul(q[4], q[4]))),
         Twice(RSub(RMul(q[2], q[3]), RMul(q[1], q[4]))),
         Twice(RAdd(RMul(q[2], q[4]), RMul(q[1], q[3])))>>,
       <<Twice(RAdd(RMul(q[2], q[3]), RMul(q[1], q[4]))),
         RSub(RAdd(RMul(q[1], q[1]), RMul(q[3], q[3])), RAdd(RMul(q[2], q[2]), RMul(q[4], q[4]))),
         Twice(RSub(RMul(q[3], q[4]), RMul(q[1], q[2])))>>,
       <<Twice(RSub(RMul(q[2], q[4]), RMul(q[1], q[3]))),
         Twice(RAdd(RMul(q[3], q[4]), RMul(q[1], q[2]))),
         RSub(RAdd(RMul(q[1], q[1]), RMul(q[4], q[4])), RAdd(RMul(q[2], q[2]), RMul(q[3], q[3])))>> >>

\* rotation matrix of the normalised quaternion q / |q|.  Every entry is a
\* sum of products of two normalised components, (q_i / |q|) * (q_j / |q|) =
\* q_i * q_j / |q|^2, so the square root never has to be taken.
QuatToRot(q) ==
    LET w == RInv(QuatNorm2(q))
        P(i, j) == RMul(w, RMul(q[i], q[j]))
        aa == P(1, 1)
        bb == P(2, 2)
        cc == P(3, 3)
        dd == P(4, 4)
    IN  << <<RSub(RAdd(aa, bb), RAdd(cc, dd)), Twice(RSub(P(2, 3), P(1, 4))), Twice(RAdd(P(2, 4), P(1, 3)))>>,
           <<Twice(RAdd(P(2, 3), P(1, 4))), RSub(RAdd(aa, cc), RAdd(bb, dd)), Twice(RSub(P(3, 4), P(1, 2)))>>,
           <<Twice(RSub(P(2, 4), P(1, 3))), Twice(RAdd(P(3, 4), P(1, 2))), RSub(RAdd(aa, dd), RAdd(bb, cc))>> >>

\* the rotation of residue i of the projected update [N, 6]
UpdateRotation(update, i) ==
    QuatToRot(Quaternion(<<At(update, <<i, 0>>), At(update, <<i, 1>>), At(update, <<i, 2>>)>>))

UpdateRotations(update, n) ==
    [k \in 1..(n * 9) |-> UpdateRotation(update, (k - 1) \div 9)[(((k - 1) % 9) \div 3) + 1][((k - 1) % 3) + 1]]

\* update[..., 3:]
UpdateTranslations(update, n) ==
    [k \in 1..(n * 3) |-> At(update, <<(k - 1) \div 3, ((k - 1) % 3) + 3>>)]

\* bu is the module: its linear layer's weight [6, single_dim] and bias [6]
BackboneUpdate(bu, single) ==
    IF ~Linear(single, bu.w, bu.b).ok \/ Rank(Linear(single, bu.w, bu.b)) # 2
    THEN Frame(ShapeError, ShapeError)
    ELSE Frame(Tensor(<<single.shape[1], 3, 3>>,
                      UpdateRotations(Linear(single, bu.w, bu.b), single.shape[1])),
               Tensor(<<single.shape[1], 3>>,
                      UpdateTranslations(Linear(single, bu.w, bu.b), single.shape[1])))

(***************************************************************************)
(* Inputs.  Parameters and representations are small integers spread by a  *)
(* seed; frames are those of quaternions (1, b, c, d) with b, c, d in      *)
(* -1..1, whose rotation matrices have entries in thirds.                  *)
(***************************************************************************)
SpreadValue(seed, salt, k, lo, hi) ==
    lo + ((((k + salt) * (k + salt) * (seed + 2) + salt * k + 3 * seed) % 17) % (hi - lo + 1))

Spread(seed, salt, shape, lo, hi) ==
    Tensor(shape, [k \in 1..Prod(shape) |-> Rat(SpreadValue(seed, salt, k - 1, lo, hi))])

Zeros(shape) == Tensor(shape, [k \in 1..Prod(shape) |-> Zero])

\* InvariantPointAttention.__init__
IPA(c, seed) ==
    [c |-> c,
     query |-> Spread(seed, 1, <<c.H * c.E, c.S>>, -1, 1),
     key |-> Spread(seed, 2, <<c.H * c.E, c.S>>, -1, 1),
     value |-> Spread(seed, 3, <<c.H * c.E, c.S>>, -1, 1),
     query_points |-> Spread(seed, 4, <<c.H * c.Pq * 3, c.S>>, -1, 1),
     key_points |-> Spread(seed, 5, <<c.H * c.Pq * 3, c.S>>, -1, 1),
     value_points |-> Spread(seed, 6, <<c.H * c.Pv * 3, c.S>>, -1, 1),
     bias |-> Spread(seed, 7, <<c.H, c.D>>, -1, 1),
     out_w |-> Spread(seed, 8, <<c.S, OutWidth(c)>>, -1, 1),
     out_b |-> Spread(seed, 9, <<c.S>>, -1, 1),
     scale_head |-> Spread(seed, 10, <<c.H>>, 1, 2)]

\* BackboneUpdate.__init__: linear = nn.Linear(single_dim, 6)
BackboneModule(c, seed, with_bias) ==
    [w |-> Spread(seed, 11, <<6, c.S>>, -1, 1),
     b |-> IF with_bias THEN Spread(seed, 12, <<6>>, -1, 1) ELSE Zeros(<<6>>)]

\* the frame of the quaternion (1, b, c, d) and the translation t
FrameOf(bcd, t) ==
    Frame(Tensor(<<3, 3>>, [k \in 1..9 |->
              QuatToRot(Quaternion(<<Rat(bcd[1]), Rat(bcd[2]), Rat(bcd[3])>>))[((k - 1) \div 3) + 1][((k - 1) % 3) + 1]]),
          Tensor(<<3>>, [k \in 1..3 |-> Rat(t[k])]))

\* the frame of residue i: quaternion and translation spread by the seed
SeedFrame(seed, i) ==
    FrameOf(<<((seed + i) % 3) - 1, ((seed + 2 * i + 1) % 3) - 1, ((2 * seed + i + 2) % 3) - 1>>,
            <<(seed + i) % 2, (i + 1) % 2, ((seed + 2 * i) % 3) - 1>>)

\* N frames
FramesOf(n, seed) ==
    Frame(Tensor(<<n, 3, 3>>, [k \in 1..(n * 9) |->
              SeedFrame(seed, (k - 1) \div 9).rotations.data[((k - 1) % 9) + 1]]),
          Tensor(<<n, 3>>, [k \in 1..(n * 3) |->
              SeedFrame(seed, (k - 1) \div 3).translations.data[((k - 1) % 3) + 1]]))

\* the identity frame: R = I, t = 0
IdentityFrame ==
    Frame(Tensor(<<3, 3>>, [k \in 1..9 |-> IF (k - 1) \div 3 = (k - 1) % 3 THEN One ELSE Zero]),
          Zeros(<<3>>))

\* global rigid transforms: a quarter turn about z, and a turn with entries in thirds
Transforms ==
    {FrameOf(<<0, 0, 1>>, <<1, 1, 1>>),
     FrameOf(<<1, 1, 0>>, <<1, 0, -1>>)}

Configs ==
    {[N |-> n, H |-> h, Pq |-> pq, Pv |-> d[4], S |-> d[1], D |-> d[2], E |-> d[3]] :
        n \in 1..MaxN, h \in {1, 2}, pq \in {1, 2}, d \in {<<2, 2, 2, 2>>, <<3, 1, 1, 1>>}}

\* attention weight w[i, h, j] = 1 if i = j else 0
OneHot(cfg) ==
    Tensor(<<cfg.N, cfg.H, cfg.N>>, [k \in 1..(cfg.N * cfg.H * cfg.N) |->
        IF Index(<<cfg.N, cfg.H, cfg.N>>, k)[1] = Index(<<cfg.N, cfg.H, cfg.N>>, k)[3] THEN One ELSE Zero])

(***************************************************************************)
(* The state: one module instance with its inputs, the frames (which       *)
(* Compose moves by the global transform), and the last call with its      *)
(* arguments and result.                                                   *)
(***************************************************************************)
VARIABLES c, m, single_rep, pair_rep, transform, frames0, frames, composed, call

(***************************************************************************)
(* The state of the preprocessing and training scenarios: an MSARunner     *)
(* with its cache directory, and a Nanofold module with the batch and the  *)
(* position of one forward call.  unlinked holds the files that were      *)
(* removed or replaced while open; runs is each caller's position inside   *)
(* run; sequential records that the calls so far were calls of run made    *)
(* one after the other, returned the ids a run has returned a result for,  *)
(* and jackhmmer_calls how many times jackhmmer was started for each id.   *)
(***************************************************************************)
VARIABLES msa_runner, cache_dir, unlinked, runs, sequential, returned, jackhmmer_calls, msa_call
VARIABLES nanofold, batch, fwd

MSAVars == <<msa_runner, cache_dir, unlinked, runs, sequential, returned, jackhmmer_calls,
            msa_call>>
NanofoldVars == <<nanofold, batch, fwd>>
IPAVars == <<c, m, single_rep, pair_rep, transform, frames0, frames, composed, call>>

vars == <<IPAVars, MSAVars, NanofoldVars>>

\* no MSARunner has been constructed
NoMSARunner ==
    /\ msa_runner = "none"
    /\ cache_dir = <<>>
    /\ unlinked = <<>>
    /\ runs = <<>>
    /\ sequential = TRUE
    /\ returned = {}
    /\ jackhmmer_calls = <<>>
    /\ msa_call = [seq |-> 0]

\* no Nanofold module has been constructed
NoNanofold ==
    /\ nanofold = "none"
    /\ batch = {}
    /\ fwd = [pc |-> "none"]

NoCall == [op |-> "none"]

Init ==
    \E cfg \in Configs, seed \in 0..MaxSeed, t \in Transforms :
        /\ c = cfg
        /\ m = IPA(cfg, seed) @@ [bu |-> BackboneModule(cfg, seed, TRUE)]
        /\ single_rep = Spread(seed, 13, <<cfg.N, cfg.S>>, -1, 1)
        /\ pair_rep = Spread(seed, 14, <<cfg.N, cfg.N, cfg.D>>, -1, 1)
        /\ transform = t
        /\ frames0 = FramesOf(cfg.N, seed)
        /\ frames = FramesOf(cfg.N, seed)
        /\ composed = FALSE
        /\ call = NoCall
        /\ NoMSARunner
        /\ NoNanofold

Idle == call.op = "none"

\* the weight arguments the attention methods are called with: the softmax
\* of forward, the raw pair scores (as the tests pass them), the same scores
\* with the head axis leading, and the one-hot attention
Weights ==
    LET w == AttentionWeight(m, single_rep, pair_rep, frames)
        raw == PairRepWeight(m, pair_rep)
    IN  {raw, Permute(raw, <<1, 0, 2>>), OneHot(c)} \cup (IF w.ok THEN {w} ELSE {})

\* point batches with trailing dimension 3
PointBatches ==
    {Spread(c.N, 15, <<c.N, 3>>, -2, 2), Spread(c.N, 16, <<2, c.N, 3>>, -2, 2)}

\* Frame.compose(transform, frames): every frame is moved by the same transform
Compose ==
    /\ Idle /\ ~composed
    /\ frames' = FrameCompose(transform, frames)
    /\ composed' = TRUE
    /\ UNCHANGED <<c, m, single_rep, pair_rep, transform, frames0, call>>
    /\ UNCHANGED <<MSAVars, NanofoldVars>>

ApplyCall ==
    /\ Idle
    /\ \E p \in PointBatches :
           call' = [op |-> "apply", points |-> p, ret |-> FrameApply(frames, p)]
    /\ UNCHANGED <<c, m, single_rep, pair_rep, transform, frames0, frames, composed>>
    /\ UNCHANGED <<MSAVars, NanofoldVars>>

InverseCall ==
    /\ Idle
    /\ call' = [op |-> "inverse", ret |-> FrameInverse(frames)]
    /\ UNCHANGED <<c, m, single_rep, pair_rep, transform, frames0, frames, composed>>
    /\ UNCHANGED <<MSAVars, NanofoldVars>>

BackboneUpdateCall ==
    /\ Idle /\ ~composed
    /\ \E x \in {single_rep, Zeros(single_rep.shape)}, bu \in {m.bu, [m.bu EXCEPT !.b = Zeros(<<6>>)]} :
           call' = [op |-> "backbone_update", bu |-> bu, single |-> x, ret |-> BackboneUpdate(bu, x)]
    /\ UNCHANGED <<c, m, single_rep, pair_rep, transform, frames0, frames, composed>>
    /\ UNCHANGED <<MSAVars, NanofoldVars>>

SingleRepWeightCall ==
    /\ Idle /\ ~composed
    /\ call' = [op |-> "single_rep_weight", ret |-> SingleRepWeight(m, single_rep)]
    /\ UNCHANGED <<c, m, single_rep, pair_rep, transform, frames0, frames, composed>>
    /\ UNCHANGED <<MSAVars, NanofoldVars>>

PairRepWeightCall ==
    /\ Idle /\ ~composed
    /\ call' = [op |-> "pair_rep_weight", ret |-> PairRepWeight(m, pair_rep)]
    /\ UNCHANGED <<c, m, single_rep, pair_rep, transform, frames0, frames, composed>>
    /\ UNCHANGED <<MSAVars, NanofoldVars>>

FrameWeightCall ==
    /\ Idle
    /\ call' = [op |-> "frame_weight", ret |-> FrameWeight(m, frames, single_rep)]
    /\ UNCHANGED <<c, m, single_rep, pair_rep, transform, frames0, frames, composed>>
    /\ UNCHANGED <<MSAVars, NanofoldVars>>

SingleRepAttentionCall ==
    /\ Idle /\ ~composed
    /\ \E w \in Weights :
           call' = [op |-> "single_rep_attention", weight |-> w,
                    ret |-> SingleRepAttention(m, w, single_rep)]
    /\ UNCHANGED <<c, m, single_rep, pair_rep, transform, frames0, frames, composed>>
    /\ UNCHANGED <<MSAVars, NanofoldVars>>

PairRepAttentionCall ==
    /\ Idle /\ ~composed
    /\ \E w \in Weights :
           call' = [op |-> "pair_rep_attention", weight |-> w,
                    ret |-> PairRepAttention(m, w, pair_rep)]
    /\ UNCHANGED <<c, m, single_rep, pair_rep, transform, frames0, frames, composed>>
    /\ UNCHANGED <<MSAVars, NanofoldVars>>

FrameAttentionCall ==
    /\ Idle
    /\ \E w \in Weights :
           call' = [op |-> "frame_attention", weight |-> w,
                    ret |-> FrameAttention(m, w, frames, single_rep)]
    /\ UNCHANGED <<c, m, single_rep, pair_rep, transform, frames0, frames, composed>>
    /\ UNCHANGED <<MSAVars, NanofoldVars>>

\* the attention weights of forward (lines 105-110), as the tests inspect them
AttentionWeightCall ==
    /\ Idle
    /\ call' = [op |-> "attention_weight", ret |-> AttentionWeight(m, single_rep, pair_rep, frames)]
    /\ UNCHANGED <<c, m, single_rep, pair_rep, transform, frames0, frames, composed>>
    /\ UNCHANGED <<MSAVars, NanofoldVars>>

ForwardCall ==
    /\ Idle
    /\ call' = [op |-> "forward", ret |-> Forward(m, single_rep, pair_rep, frames)]
    /\ UNCHANGED <<c, m, single_rep, pair_rep, transform, frames0, frames, composed>>
    /\ UNCHANGED <<MSAVars, NanofoldVars>>

Next ==
    \/ Compose
    \/ ApplyCall
    \/ InverseCall
    \/ BackboneUpdateCall
    \/ SingleRepWeightCall
    \/ PairRepWeightCall
    \/ FrameWeightCall
    \/ SingleRepAttentionCall
    \/ PairRepAttentionCall
    \/ FrameAttentionCall
    \/ AttentionWeightCall
    \/ ForwardCall

Spec == Init /\ [][Next]_vars
(***************************************************************************)
(* MSARunner (src/nanofold/preprocess/msa_runner.py).  The cache directory *)
(* holds, for each id, the files <id>.sto, <id>.sto.gz and <id>.sto.tmp;   *)
(* a file is "absent", "empty" or holds "data".  jackhmmer and the sto     *)
(* parser are external: every outcome they can have is possible.  run,     *)
(* cached_result and truncate_sto take no lock, so the calls of several    *)
(* callers interleave between any two of their file operations: each       *)
(* action below is one file operation of one caller.  An open file follows *)
(* os.rename, and lives on in unlinked, with its content, when os.remove   *)
(* or os.rename takes its name away; reads and writes go through the open  *)
(* file, wherever it is by then.                                           *)
(***************************************************************************)
MaxIds == 2
\* the length of a sequence of run calls made one after the other
MaxRuns == 3
\* the number of calls when calls overlap or cached_result and truncate_sto
\* are called directly
MaxCalls == 2
MaxCallers == 2

Ids == 1..MaxIds
\* the threads or processes that call one MSARunner on one cache directory:
\* at most MaxCallers calls are under way at once
Callers == 1..MaxCallers

NoFiles == [sto |-> "absent", gz |-> "absent", tmp |-> "absent"]

\* the IPA scenario is not part of a preprocessing or training run
NoIPA ==
    /\ c = "none" /\ m = "none"
    /\ single_rep = "none" /\ pair_rep = "none"
    /\ transform = "none" /\ frames0 = "none" /\ frames = "none"
    /\ composed = FALSE
    /\ call = NoCall

\* a caller that is inside no call
IdleRun == [pc |-> "idle"]

\* the callers that are inside a call
InFlight == {u \in Callers : runs[u].pc # "idle"}

\* callers are interchangeable: the next call is made by the first idle one
FirstIdle(u) == runs[u].pc = "idle" /\ \A v \in 1..(u - 1) : runs[v].pc # "idle"

\* another call can be made: seq tells whether, with it, the calls so far
\* are still calls of run made one after the other
CanCall(seq) ==
    msa_call.seq + Cardinality(InFlight) < (IF seq THEN MaxRuns ELSE MaxCalls)

\* a call of op ("run", "cached_result" or "truncate_sto") for an id that
\* has just been entered: line is where run called cached_result from,
\* content what cached_result read from <id>.sto, contents what the parser
\* of truncate_sto returned, ops the file operations made so far; handle is
\* where the file the call (or its jackhmmer) holds open is now: under the
\* name "sto" or "tmp", or "gone" from the directory and kept in
\* unlinked[slot]
Entered(op, id, file) ==
    [pc |-> "entered", op |-> op, id |-> id, file |-> file, line |-> 0,
     jackhmmer |-> FALSE, ops |-> <<>>, content |-> "absent", contents |-> "absent",
     handle |-> "none", slot |-> 0]

\* the call r holds the file h of id open
Holds(r, id, h) == r.pc # "idle" /\ r.id = id /\ r.handle = h

\* the slots of unlinked that the calls rs hold open
Used(rs) == {rs[v].slot : v \in {w \in Callers : rs[w].pc # "idle" /\ rs[w].handle = "gone"}}

\* the first slot of unlinked that none of the calls rs holds open
FreeSlot(rs) == CHOOSE k \in Callers : k \notin Used(rs) /\ \A j \in 1..(k - 1) : j \in Used(rs)

\* the unlinked files ul that one of the calls rs still holds open: the
\* others are freed
Collect(ul, rs) == [k \in Callers |-> IF k \in Used(rs) THEN ul[k] ELSE "absent"]

\* the call r with its file closed
Closed(r) == [r EXCEPT !.handle = "none", !.slot = 0]

\* what is read through the open file of the call r
ReadThrough(r) ==
    IF r.handle = "gone" THEN unlinked[r.slot] ELSE cache_dir[r.id][r.handle]

\* the directory once content has been written through the open file of r
WrittenDir(r, content) ==
    IF r.handle = "gone" THEN cache_dir ELSE [cache_dir EXCEPT ![r.id][r.handle] = content]

\* the unlinked files once content has been written through the open file of r
WrittenUnlinked(r, content) ==
    IF r.handle = "gone" THEN [unlinked EXCEPT ![r.slot] = content] ELSE unlinked

\* an os.remove that forgets to remove the file
OsRemoveKeeps(files, name) == files

\* os.remove(output), line 58
OsRemove(files, name) == [files EXCEPT ![name] = "absent"]

\* os.rename(tmp_output, output), line 85
OsRename(files) == [files EXCEPT !.sto = files.tmp, !.tmp = "absent"]

\* the calls rs once <id>.sto has lost its name: those that hold it open
\* now hold an unlinked file
Unlinked(rs, id) ==
    [v \in Callers |->
        IF Holds(rs[v], id, "sto")
        THEN [rs[v] EXCEPT !.handle = "gone", !.slot = FreeSlot(rs)] ELSE rs[v]]

\* the unlinked files once the <id>.sto that held content has lost its
\* name: it is kept while one of the calls rs holds it open
Kept(ul, rs, id, content) ==
    IF \E v \in Callers : Holds(rs[v], id, "sto")
    THEN [ul EXCEPT ![FreeSlot(rs)] = content] ELSE ul

\* the calls rs once <id>.sto.tmp has been renamed to <id>.sto: an open
\* <id>.sto.tmp is now <id>.sto, and the <id>.sto it replaced has lost its
\* name
Renamed(rs, id) ==
    [v \in Callers |->
        IF Holds(rs[v], id, "tmp")
        THEN [rs[v] EXCEPT !.handle = "sto"] ELSE Unlinked(rs, id)[v]]

\* MSARunner(jackhmmer_bin, small_bfd, cache_dir, num_cpus, max_sequences)
\* on an empty cache directory, with no call under way
InitMSA ==
    /\ NoIPA
    /\ NoNanofold
    /\ msa_runner \in {[max_sequences |-> "None"], [max_sequences |-> "set"]}
    /\ cache_dir = [id \in Ids |-> NoFiles]
    /\ unlinked = [k \in Callers |-> "absent"]
    /\ runs = [u \in Callers |-> IdleRun]
    /\ sequential = TRUE
    /\ returned = {}
    /\ jackhmmer_calls = [id \in Ids |-> 0]
    /\ msa_call = [seq |-> 0]

\* the call r of caller u, one of the calls rs, ends: it returns
\* "zip_result", "content" or "None", or it has "raised"; the file it held
\* open is closed
EndCall(rs, u, r, result) ==
    /\ msa_call' = [seq |-> msa_call.seq + 1, op |-> r.op, id |-> r.id,
                    file |-> r.file, result |-> result, jackhmmer |-> r.jackhmmer,
                    ops |-> r.ops]
    /\ returned' = IF r.op = "run" /\ result \in {"zip_result", "content"}
                   THEN returned \cup {r.id} ELSE returned
    /\ runs' = [rs EXCEPT ![u] = IdleRun]

\* cached_result, lines 43-51, in the call r of caller u: the zipped copy
\* exists and zip_result is returned, or line 53 is next
ZipCheck(u, r) ==
    IF cache_dir[r.id].gz # "absent"
    THEN EndCall(runs, u, r, "zip_result")
    ELSE /\ runs' = [runs EXCEPT ![u] = [r EXCEPT !.pc = "sto_exists"]]
         /\ UNCHANGED <<msa_call, returned>>

\* run(fasta_input, id), lines 70-74, up to the first file operation of
\* its first cached_result
RunStart(u, id) ==
    /\ FirstIdle(u)
    /\ CanCall(sequential /\ InFlight = {})
    /\ sequential' = (sequential /\ InFlight = {})
    /\ ZipCheck(u, [Entered("run", id, "sto") EXCEPT !.line = 74])
    /\ UNCHANGED <<msa_runner, cache_dir, unlinked, jackhmmer_calls, IPAVars, NanofoldVars>>

\* cached_result(cache_dir / f"{id}.sto") called directly, up to its first
\* file operation
CachedResultCall(u, id) ==
    /\ FirstIdle(u)
    /\ CanCall(FALSE)
    /\ sequential' = FALSE
    /\ ZipCheck(u, Entered("cached_result", id, "sto"))
    /\ UNCHANGED <<msa_runner, cache_dir, unlinked, jackhmmer_calls, IPAVars, NanofoldVars>>

\* run, line 86: the second cached_result, lines 43-51
ZipExists(u) ==
    /\ runs[u].pc = "zip_exists"
    /\ ZipCheck(u, runs[u])
    /\ UNCHANGED <<msa_runner, cache_dir, unlinked, sequential, jackhmmer_calls,
                   IPAVars, NanofoldVars>>

\* cached_result returns None (line 60) in the call of caller u: run, when
\* that was its first cached_result (line 74), goes on to start jackhmmer;
\* the second cached_result of run (line 86) and a direct call return None
ReturnNone(u) ==
    IF runs[u].op = "run" /\ runs[u].line = 74
    THEN /\ runs' = [runs EXCEPT ![u].pc = "jackhmmer_start"]
         /\ UNCHANGED <<msa_call, returned>>
    ELSE EndCall(runs, u, runs[u], "None")

\* cached_result, line 53, left operand: output.exists(); the right operand
\* is evaluated only when the file exists
StoExists(u) ==
    /\ runs[u].pc = "sto_exists"
    /\ IF cache_dir[runs[u].id].sto # "absent"
       THEN /\ runs' = [runs EXCEPT ![u].pc = "sto_getsize"]
            /\ UNCHANGED <<msa_call, returned>>
       ELSE ReturnNone(u)
    /\ UNCHANGED <<msa_runner, cache_dir, unlinked, sequential, jackhmmer_calls,
                   IPAVars, NanofoldVars>>

\* cached_result, line 53, right operand: os.path.getsize(output) > 0;
\* getsize raises FileNotFoundError when another caller has removed the
\* file since output.exists()
StoGetsize(u) ==
    /\ runs[u].pc = "sto_getsize"
    /\ IF cache_dir[runs[u].id].sto = "absent"
       THEN EndCall(runs, u, runs[u], "raised")
       ELSE IF cache_dir[runs[u].id].sto = "data"
       THEN /\ runs' = [runs EXCEPT ![u].pc = "open_sto"]
            /\ UNCHANGED <<msa_call, returned>>
       ELSE ReturnNone(u)
    /\ UNCHANGED <<msa_runner, cache_dir, unlinked, sequential, jackhmmer_calls,
                   IPAVars, NanofoldVars>>

\* cached_result, line 54: open(output), which raises FileNotFoundError
\* when another caller has removed the file; the file stays open up to the
\* end of line 57
OpenSto(u) ==
    /\ runs[u].pc = "open_sto"
    /\ IF cache_dir[runs[u].id].sto = "absent"
       THEN EndCall(runs, u, runs[u], "raised")
       ELSE /\ runs' = [runs EXCEPT ![u].pc = "read_sto", ![u].handle = "sto"]
            /\ UNCHANGED <<msa_call, returned>>
    /\ UNCHANGED <<msa_runner, cache_dir, unlinked, sequential, jackhmmer_calls,
                   IPAVars, NanofoldVars>>

\* cached_result, line 55: content = f.read(), what the open file holds by
\* now, under whatever name, or under none
ReadSto(u) ==
    /\ runs[u].pc = "read_sto"
    /\ runs' = [runs EXCEPT ![u].pc = "gzip_open", ![u].content = ReadThrough(runs[u])]
    /\ UNCHANGED <<msa_runner, cache_dir, unlinked, sequential, returned, jackhmmer_calls,
                   msa_call, IPAVars, NanofoldVars>>

\* cached_result, line 56: gzip.open(zip_output, "wb") creates or empties
\* the zipped copy
GzipOpen(u) ==
    /\ runs[u].pc = "gzip_open"
    /\ cache_dir' = [cache_dir EXCEPT ![runs[u].id].gz = "empty"]
    /\ runs' = [runs EXCEPT ![u].pc = "gzip_write"]
    /\ UNCHANGED <<msa_runner, unlinked, sequential, returned, jackhmmer_calls, msa_call,
                   IPAVars, NanofoldVars>>

\* cached_result, line 57: gz_f.write(content.encode()); the zipped copy
\* and then <id>.sto are closed
GzipWrite(u) ==
    /\ runs[u].pc = "gzip_write"
    /\ cache_dir' = [cache_dir EXCEPT ![runs[u].id].gz = runs[u].content]
    /\ runs' = [runs EXCEPT ![u] = [Closed(runs[u]) EXCEPT !.pc = "remove_sto",
                                                           !.ops = @ \o <<"write gz">>]]
    /\ unlinked' = Collect(unlinked, runs')
    /\ UNCHANGED <<msa_runner, sequential, returned, jackhmmer_calls, msa_call,
                   IPAVars, NanofoldVars>>

\* cached_result, lines 58-59: os.remove(output), which raises
\* FileNotFoundError when another caller has removed the file, and the
\* content is returned
RemoveSto(u) ==
    /\ runs[u].pc = "remove_sto"
    /\ IF cache_dir[runs[u].id].sto = "absent"
       THEN /\ EndCall(runs, u, runs[u], "raised")
            /\ UNCHANGED <<cache_dir, unlinked>>
       ELSE /\ cache_dir' = [cache_dir EXCEPT ![runs[u].id] = OsRemove(@, "sto")]
            /\ unlinked' = Kept(unlinked, runs, runs[u].id, cache_dir[runs[u].id].sto)
            /\ EndCall(Unlinked(runs, runs[u].id), u,
                       [runs[u] EXCEPT !.ops = @ \o <<"remove sto">>], "content")
    /\ UNCHANGED <<msa_runner, sequential, jackhmmer_calls, IPAVars, NanofoldVars>>

\* run, lines 75-79: the first cached_result was None, so subprocess.run
\* starts jackhmmer on <id>.sto.tmp and waits for it
JackhmmerStart(u) ==
    /\ runs[u].pc = "jackhmmer_start"
    /\ runs' = [runs EXCEPT ![u].pc = "jackhmmer", ![u].jackhmmer = TRUE]
    /\ jackhmmer_calls' = [jackhmmer_calls EXCEPT ![runs[u].id] = @ + 1]
    /\ UNCHANGED <<msa_runner, cache_dir, unlinked, sequential, returned, msa_call,
                   IPAVars, NanofoldVars>>

\* run, line 79: the jackhmmer that run waits for opens its output file
\* (-A tmp_output) for writing, once, which creates or empties
\* <id>.sto.tmp, and may write its alignment at once; it keeps the file open
JackhmmerOpens(u) ==
    /\ runs[u].pc = "jackhmmer"
    /\ runs[u].handle = "none"
    /\ \E content \in {"empty", "data"} :
           cache_dir' = [cache_dir EXCEPT ![runs[u].id].tmp = content]
    /\ runs' = [runs EXCEPT ![u].handle = "tmp"]
    /\ UNCHANGED <<msa_runner, unlinked, sequential, returned, jackhmmer_calls, msa_call,
                   IPAVars, NanofoldVars>>

\* run, line 79: the jackhmmer that run waits for writes its alignment to
\* the file it holds open
JackhmmerWrites(u) ==
    /\ runs[u].pc = "jackhmmer"
    /\ runs[u].handle # "none"
    /\ cache_dir' = WrittenDir(runs[u], "data")
    /\ unlinked' = WrittenUnlinked(runs[u], "data")
    /\ UNCHANGED <<msa_runner, runs, sequential, returned, jackhmmer_calls, msa_call,
                   IPAVars, NanofoldVars>>

\* run, lines 79-82: jackhmmer exits, which closes its file; subprocess.run
\* returns, or raises CalledProcessError, which run logs and raises again
JackhmmerExit(u) ==
    /\ runs[u].pc = "jackhmmer"
    /\ \E ok \in BOOLEAN :
           IF ok
           THEN /\ runs' = [runs EXCEPT ![u] = [Closed(runs[u]) EXCEPT
                                                    !.pc = "truncate_open",
                                                    !.ops = <<"write tmp">>]]
                /\ UNCHANGED <<msa_call, returned>>
           ELSE EndCall(runs, u, [runs[u] EXCEPT !.ops = <<"write tmp">>], "raised")
    /\ unlinked' = Collect(unlinked, runs')
    /\ UNCHANGED <<msa_runner, cache_dir, sequential, jackhmmer_calls, IPAVars, NanofoldVars>>

\* truncate_sto, lines 63-64, in the call r of caller u on a file of r.id:
\* nothing to do without max_sequences (then is what follows: "return" or,
\* in run, the pc of line 85); else open(output, mode="r+"), which raises
\* FileNotFoundError when the file is absent
TruncateOpen(u, r, file, then) ==
    IF msa_runner.max_sequences = "None"
    THEN IF then = "return"
         THEN EndCall(runs, u, r, "None")
         ELSE /\ runs' = [runs EXCEPT ![u] = [r EXCEPT !.pc = then]]
              /\ UNCHANGED <<msa_call, returned>>
    ELSE IF cache_dir[r.id][file] = "absent"
    THEN EndCall(runs, u, r, "raised")
    ELSE /\ runs' = [runs EXCEPT ![u] = [r EXCEPT !.pc = "truncate_parse", !.handle = file]]
         /\ UNCHANGED <<msa_call, returned>>

\* run, line 84: truncate_sto(tmp_output), lines 63-64
TruncateTmp(u) ==
    /\ runs[u].pc = "truncate_open"
    /\ TruncateOpen(u, runs[u], "tmp", "rename")
    /\ UNCHANGED <<msa_runner, cache_dir, unlinked, sequential, jackhmmer_calls,
                   IPAVars, NanofoldVars>>

\* truncate_sto(output) called directly on <id>.sto or <id>.sto.tmp,
\* lines 63-64
TruncateStoCall(u, id, file) ==
    /\ FirstIdle(u)
    /\ CanCall(FALSE)
    /\ sequential' = FALSE
    /\ TruncateOpen(u, Entered("truncate_sto", id, file), file, "return")
    /\ UNCHANGED <<msa_runner, cache_dir, unlinked, jackhmmer_calls, IPAVars, NanofoldVars>>

\* truncate_sto, line 65: the parser reads the open file and returns the
\* contents to keep, or raises, which closes the file
TruncateParse(u) ==
    /\ runs[u].pc = "truncate_parse"
    /\ \E contents \in {"raised", "empty", "data"} :
           IF contents = "raised"
           THEN EndCall(runs, u, runs[u], "raised")
           ELSE /\ runs' = [runs EXCEPT ![u].pc = "truncate_write", ![u].contents = contents]
                /\ UNCHANGED <<msa_call, returned>>
    /\ unlinked' = Collect(unlinked, runs')
    /\ UNCHANGED <<msa_runner, cache_dir, sequential, jackhmmer_calls, IPAVars, NanofoldVars>>

\* truncate_sto, lines 66-67: f.seek(0) and f.write(contents) put the
\* contents at the start of the open file, over what it holds: nothing is
\* cut yet, and empty contents change nothing.  (The bytes reach the file
\* here or, when the io buffer holds them back, at the flush that
\* f.truncate begins with: in both cases before the file is cut.)
TruncateWrite(u) ==
    /\ runs[u].pc = "truncate_write"
    /\ cache_dir' = IF runs[u].contents = "empty" THEN cache_dir
                    ELSE WrittenDir(runs[u], runs[u].contents)
    /\ unlinked' = IF runs[u].contents = "empty" THEN unlinked
                   ELSE WrittenUnlinked(runs[u], runs[u].contents)
    /\ runs' = [runs EXCEPT ![u].pc = "truncate_cut"]
    /\ UNCHANGED <<msa_runner, sequential, returned, jackhmmer_calls, msa_call,
                   IPAVars, NanofoldVars>>

\* truncate_sto, line 68: f.truncate() sets the size of the open file to
\* that of the contents, whatever the file holds by now, and the file is
\* closed
TruncateCut(u) ==
    /\ runs[u].pc = "truncate_cut"
    /\ cache_dir' = WrittenDir(runs[u], runs[u].contents)
    /\ IF runs[u].op = "run"
       THEN /\ runs' = [runs EXCEPT ![u] = [Closed(runs[u]) EXCEPT
                                                !.pc = "rename",
                                                !.ops = @ \o <<"truncate tmp">>]]
            /\ UNCHANGED <<msa_call, returned>>
       ELSE EndCall(runs, u, [runs[u] EXCEPT !.ops = IF runs[u].file = "tmp"
                                               THEN <<"truncate tmp">>
                                               ELSE <<"truncate sto">>], "None")
    /\ unlinked' = Collect(WrittenUnlinked(runs[u], runs[u].contents), runs')
    /\ UNCHANGED <<msa_runner, sequential, jackhmmer_calls, IPAVars, NanofoldVars>>

\* run, line 85: os.rename(tmp_output, output), which raises
\* FileNotFoundError when <id>.sto.tmp is absent
Rename(u) ==
    /\ runs[u].pc = "rename"
    /\ IF cache_dir[runs[u].id].tmp = "absent"
       THEN /\ EndCall(runs, u, runs[u], "raised")
            /\ UNCHANGED <<cache_dir, unlinked>>
       ELSE /\ cache_dir' = [cache_dir EXCEPT ![runs[u].id] = OsRename(@)]
            /\ unlinked' = Kept(unlinked, runs, runs[u].id, cache_dir[runs[u].id].sto)
            /\ runs' = [Renamed(runs, runs[u].id) EXCEPT
                            ![u] = [runs[u] EXCEPT !.pc = "zip_exists", !.line = 86,
                                                   !.ops = @ \o <<"rename tmp sto">>]]
            /\ UNCHANGED <<msa_call, returned>>
    /\ UNCHANGED <<msa_runner, sequential, jackhmmer_calls, IPAVars, NanofoldVars>>

NextMSA ==
    \/ \E u \in Callers, id \in Ids : RunStart(u, id)
    \/ \E u \in Callers, id \in Ids : CachedResultCall(u, id)
    \/ \E u \in Callers, id \in Ids, file \in {"sto", "tmp"} : TruncateStoCall(u, id, file)
    \/ \E u \in Callers :
           \/ ZipExists(u)
           \/ StoExists(u)
           \/ StoGetsize(u)
           \/ OpenSto(u)
           \/ ReadSto(u)
           \/ GzipOpen(u)
           \/ GzipWrite(u)
           \/ RemoveSto(u)
           \/ JackhmmerStart(u)
           \/ JackhmmerOpens(u)
           \/ JackhmmerWrites(u)
           \/ JackhmmerExit(u)
           \/ TruncateTmp(u)
           \/ TruncateParse(u)
           \/ TruncateWrite(u)
           \/ TruncateCut(u)
           \/ Rename(u)

SpecMSA == InitMSA /\ [][NextMSA]_vars

(***************************************************************************)
(* Nanofold.forward (src/nanofold/training/model/nanofold.py).  The batch  *)
(* is the set of its keys; the submodules are external, so tensors are     *)
(* named by where they come from.  fwd is the position of one call: its    *)
(* locals and the arguments the structure module has been given so far.    *)
(***************************************************************************)
MaxRecycle == 3

\* the keys every batch has, and the keys only a batch with a known
\* structure has
FeatureKeys == {"positions", "target_feat", "msa_feat", "local_coords"}
StructureKeys == {"rotations", "translations"}

\* line 127-129: the number of recycle iterations of the call
NumRecycle(nf) == IF nf.training THEN 1..nf.num_recycle ELSE {nf.num_recycle}

\* line 130: fape_clamp
FapeClamp(nf) == IF nf.training THEN {"10.0", "None"} ELSE {"None"}

\* the frames argument that passes the ground truth on every iteration
GroundTruthEveryIteration(i, num_recycle, b) ==
    IF "translations" \in b
    THEN IF "rotations" \in b THEN "Frame" ELSE "KeyError"
    ELSE "None"

\* lines 157-164: the frames argument of the structure module on iteration
\* i; batch["rotations"] raises KeyError when the key is missing
GroundTruth(i, num_recycle, b) ==
    IF i = num_recycle - 1 /\ "translations" \in b
    THEN IF "rotations" \in b THEN "Frame" ELSE "KeyError"
    ELSE "None"

\* lines 171-175: the distogram loss
DistLoss(b) == IF "translations" \in b THEN "distogram_loss" ELSE "None"

\* Nanofold(num_recycle, ...), in training or evaluation mode, and a batch
InitNanofold ==
    /\ NoIPA
    /\ NoMSARunner
    /\ nanofold \in {[num_recycle |-> n, training |-> t] : n \in 1..MaxRecycle, t \in BOOLEAN}
    /\ batch \in {FeatureKeys \cup ks : ks \in SUBSET StructureKeys}
    /\ fwd = [pc |-> "idle"]

\* forward, lines 127-135
ForwardStart ==
    /\ fwd.pc = "idle"
    /\ \E n \in NumRecycle(nanofold), clamp \in FapeClamp(nanofold) :
           fwd' = [pc |-> "loop", num_recycle |-> n, fape_clamp |-> clamp, i |-> 0,
                   prev |-> "zeros", given |-> <<>>, ret |-> "none"]
    /\ UNCHANGED <<nanofold, batch, IPAVars, MSAVars>>

\* forward, lines 137-169: one recycle iteration
RecycleIteration ==
    /\ fwd.pc = "loop" /\ fwd.i < fwd.num_recycle
    /\ fwd' = IF GroundTruth(fwd.i, fwd.num_recycle, batch) = "KeyError"
              THEN [fwd EXCEPT !.pc = "raised"]
              ELSE [fwd EXCEPT !.given = Append(@, [i |-> fwd.i, prev |-> fwd.prev,
                                   frames |-> GroundTruth(fwd.i, fwd.num_recycle, batch),
                                   fape_clamp |-> fwd.fape_clamp]),
                               !.prev = fwd.i,
                               !.i = fwd.i + 1]
    /\ UNCHANGED <<nanofold, batch, IPAVars, MSAVars>>

\* forward, lines 171-177
ForwardReturn ==
    /\ fwd.pc = "loop" /\ fwd.i = fwd.num_recycle
    /\ fwd' = [fwd EXCEPT !.pc = "done",
                          !.ret = [coords |-> fwd.prev, dist_loss |-> DistLoss(batch)]]
    /\ UNCHANGED <<nanofold, batch, IPAVars, MSAVars>>

NextNanofold ==
    \/ ForwardStart
    \/ RecycleIteration
    \/ ForwardReturn

SpecNanofold == InitNanofold /\ [][NextNanofold]_vars

(***************************************************************************)
(* Properties.                                                             *)
(***************************************************************************)
\* n identity rotations, [n, 3, 3]
IdentityStack(n) ==
    Tensor(<<n, 3, 3>>, [k \in 1..(n * 9) |->
        IF ((k - 1) % 9) \div 3 = (k - 1) % 3 THEN One ELSE Zero])

\* C1: forward is invariant to a global rigid transform: called on the frames
\* composed with the transform, it has the outcome it has on the original
\* frames (the same tensor, or the same failure), with the same parameters
\* and representations.
ForwardInvariant ==
    (call.op = "forward" /\ composed) =>
        call.ret = Forward(m, single_rep, pair_rep, frames0)

\* C1 witness: forward has returned a tensor on frames moved by the transform
ForwardInvariantWitness ==
    /\ call.op = "forward" /\ composed
    /\ frames # frames0
    /\ call.ret.ok
    /\ c.N >= 2 /\ c.H >= 2 /\ c.Pq >= 2

\* C2: for every configuration and every N >= 1, forward completes without
\* a shape error and returns a tensor of shape [N, single_dim].
ForwardShape ==
    call.op = "forward" => call.ret.ok /\ call.ret.shape = <<c.N, c.S>>

\* C3: round trip: applying the inverse frames to the applied points gives
\* the points back; in frame_attention, where each residue attends only to
\* itself, mapping the globally placed value points back through the inverse
\* frames returns the value points.
FrameRoundTrip ==
    /\ call.op = "apply" => FrameApply(FrameInverse(frames), call.ret) = call.points
    /\ (call.op = "frame_attention" /\ call.weight = OneHot(c)) =>
           call.ret = ValuePoints(m, single_rep)

\* C3 witness: points were moved by composed frames, in a batch of rank 3
FrameRoundTripWitness ==
    /\ call.op = "apply" /\ composed
    /\ Rank(call.points) = 3 /\ c.N >= 2
    /\ call.ret.ok /\ call.ret # call.points

\* C4: the frames of BackboneUpdate have rotations [N, 3, 3] with
\* R . R^T = I, translations [N, 3], and the translations are the last three
\* of the six projected scalars.
BackboneUpdateOrthonormal ==
    call.op = "backbone_update" =>
        /\ call.ret.rotations.ok /\ call.ret.rotations.shape = <<c.N, 3, 3>>
        /\ call.ret.translations.ok /\ call.ret.translations.shape = <<c.N, 3>>
        /\ Matmul(call.ret.rotations, Transpose(call.ret.rotations, -2, -1)) = IdentityStack(c.N)
        /\ \A i \in 0..(c.N - 1), k \in 0..2 :
               At(call.ret.translations, <<i, k>>) =
                   At(Linear(call.single, call.bu.w, call.bu.b), <<i, k + 3>>)

\* C4 witness: an update of at least two residues with rotations that are
\* not the identity
BackboneUpdateOrthonormalWitness ==
    /\ call.op = "backbone_update" /\ call.single = single_rep /\ call.bu = m.bu
    /\ c.N >= 2
    /\ call.ret.rotations.ok /\ call.ret.rotations # IdentityStack(c.N)
    /\ Select(call.ret.rotations, 0) # Select(call.ret.rotations, 1)

\* the attention methods called with a weight of the head-leading shape
HeadLeadingWeight == call.weight.ok /\ call.weight.shape = <<c.H, c.N, c.N>>

\* C5: each score term, and the softmax of their sum, has shape [H, N, N]
\* with the head axis leading; the pair term at [h, i, j] is the bias
\* projection of pair_rep[i, j] at head h; the softmax normalises over j.
ScoreTermsHeadLeading ==
    /\ call.op \in {"single_rep_weight", "pair_rep_weight", "frame_weight", "attention_weight"} =>
           call.ret.ok /\ call.ret.shape = <<c.H, c.N, c.N>>
    /\ (call.op = "pair_rep_weight" /\ call.ret.ok /\ call.ret.shape = <<c.H, c.N, c.N>>) =>
           \A h \in 0..(c.H - 1), i \in 0..(c.N - 1), j \in 0..(c.N - 1) :
               At(call.ret, <<h, i, j>>) = At(Bias(m, Select(Select(pair_rep, i), j)), <<h>>)
    /\ (call.op = "attention_weight" /\ call.ret.ok /\ call.ret.shape = <<c.H, c.N, c.N>>) =>
           \A h \in 0..(c.H - 1), i \in 0..(c.N - 1) :
               RSum([j \in 1..c.N |-> At(call.ret, <<h, i, j - 1>>)], c.N) = One

\* value_points[j][h][p], a point [3]
ValuePoint(j, h, p) == Select(Select(Select(ValuePoints(m, single_rep), j), h), p)

\* sum over j of weight[h][i][j] * apply(frames[j], value_points[j][h][p])
AttendedPoint(h, p, i) ==
    Tensor(<<3>>, [k \in 1..3 |->
        RSum([j \in 1..c.N |->
                 RMul(At(call.weight, <<h, i, j - 1>>),
                      At(FrameApply(FrameAt(frames, j - 1), ValuePoint(j - 1, h, p)), <<k - 1>>))],
             c.N)])

\* C6: frame_attention returns shape [H, P_v, N, 3], and its entry [h][p][i]
\* is apply(inverse(frames[i]), sum over j of weight[h][i][j] *
\* apply(frames[j], value_points[j][h][p])).
FrameAttentionHeadLeading ==
    (call.op = "frame_attention" /\ HeadLeadingWeight) =>
        /\ call.ret.ok /\ call.ret.shape = <<c.H, c.Pv, c.N, 3>>
        /\ \A h \in 0..(c.H - 1), p \in 0..(c.Pv - 1), i \in 0..(c.N - 1) :
               Select(Select(Select(call.ret, h), p), i) =
                   FrameApply(FrameInverse(FrameAt(frames, i)), AttendedPoint(h, p, i))

\* C7: pair_rep_attention returns shape [H, N, pair_dim], and its entry
\* [h, i, x] is the sum over j of weight[h, i, j] * pair_rep[i, j, x].
PairAttentionHeadLeading ==
    (call.op = "pair_rep_attention" /\ HeadLeadingWeight) =>
        /\ call.ret.ok /\ call.ret.shape = <<c.H, c.N, c.D>>
        /\ \A h \in 0..(c.H - 1), i \in 0..(c.N - 1), x \in 0..(c.D - 1) :
               At(call.ret, <<h, i, x>>) =
                   RSum([j \in 1..c.N |->
                            RMul(At(call.weight, <<h, i, j - 1>>), At(pair_rep, <<i, j - 1, x>>))],
                        c.N)

\* C8: compose is associative and the identity frame is its two-sided unit.
\* frames = compose(transform, frames0) once Compose has acted.
ComposeLaws ==
    composed =>
        /\ frames.rotations.ok /\ frames.translations.ok
        /\ frames.rotations = Matmul(transform.rotations, frames0.rotations)
        /\ frames.translations = FrameApply(transform, frames0.translations)
        /\ FrameCompose(frames, IdentityFrame) = frames
        /\ FrameCompose(IdentityFrame, frames) = frames
        /\ \A g \in Transforms :
               /\ FrameCompose(g, frames) = FrameCompose(FrameCompose(g, transform), frames0)
               /\ FrameCompose(FrameCompose(frames, g), transform) =
                      FrameCompose(frames, FrameCompose(g, transform))
               /\ FrameCompose(FrameCompose(g, frames), transform) =
                      FrameCompose(g, FrameCompose(frames, transform))

\* C8 witness: at least two frames were composed with the transform, which
\* moved them
ComposeLawsWitness ==
    /\ composed /\ c.N >= 2
    /\ frames.rotations # frames0.rotations
    /\ frames.translations # frames0.translations

\* residue i of the input of the last BackboneUpdate call is all zero
ZeroRow(i) == \A s \in 0..(c.S - 1) : At(call.single, <<i, s>>) = Zero

\* residue i of the frames returned by the last BackboneUpdate call is the
\* identity rotation with the zero translation
IdentityAt(i) ==
    /\ Select(call.ret.rotations, i) = IdentityFrame.rotations
    /\ Select(call.ret.translations, i) = IdentityFrame.translations

\* C9: BackboneUpdate maps an all-zero feature vector to the identity
\* rotation and the zero translation, whatever the parameters (weight and
\* bias) of its affine projection.
ZeroInputIdentity ==
    call.op = "backbone_update" =>
        \A i \in 0..(c.N - 1) : ZeroRow(i) => IdentityAt(i)

\* the squared distance between the global query point p of (i, h) and the
\* global key point p of (j, h)
PointDistance2(h, i, j, p) ==
    LET qp == Select(Select(Select(QueryPoints(m, single_rep), i), h), p)
        kp == Select(Select(Select(KeyPoints(m, single_rep), j), h), p)
        d == Sub(FrameApply(FrameAt(frames, i), qp), FrameApply(FrameAt(frames, j), kp))
    IN  RSum([k \in 1..3 |-> RMul(d.data[k], d.data[k])], 3)

\* C10: frame_weight at [h, i, j] is softplus(scale_head[h]) * scale_frame *
\* the sum over the P_q points of the squared distance between
\* apply(frames[i], query_points[i, h, p]) and apply(frames[j],
\* key_points[j, h, p]); it is unchanged when every frame is composed with
\* the same rigid transform.
FrameWeightDistances ==
    call.op = "frame_weight" =>
        /\ call.ret.ok /\ call.ret.shape = <<c.H, c.N, c.N>>
        /\ \A h \in 0..(c.H - 1), i \in 0..(c.N - 1), j \in 0..(c.N - 1) :
               At(call.ret, <<h, i, j>>) =
                   RMul(RMul(Softplus(At(m.scale_head, <<h>>)), ScaleFrame(c)),
                        RSum([p \in 1..c.Pq |-> PointDistance2(h, i, j, p - 1)], c.Pq))
        /\ composed => call.ret = FrameWeight(m, frames0, single_rep)

\* the entries of the weight of the last call sum to 1 over the key index
\* (the last axis), for each index of the leading axes
NormalisedWeight ==
    /\ call.weight.ok /\ Rank(call.weight) = 3
    /\ Sum(call.weight, -1) =
           Tensor(SubSeq(call.weight.shape, 1, 2),
                  [k \in 1..(call.weight.shape[1] * call.weight.shape[2]) |-> One])

\* C11: for a weight that sums to 1 over the key index, frame_attention on
\* the frames composed with a rigid transform returns what it returns on the
\* original frames, and so do the norms of its points.
FrameAttentionCancels ==
    (call.op = "frame_attention" /\ composed /\ NormalisedWeight) =>
        /\ call.ret = FrameAttention(m, call.weight, frames0, single_rep)
        /\ VectorNorm(call.ret) = VectorNorm(FrameAttention(m, call.weight, frames0, single_rep))

\* C11 witness: frame_attention has returned on moved frames, for a softmax
\* weight that attends to more than one residue
FrameAttentionCancelsWitness ==
    /\ call.op = "frame_attention" /\ composed /\ NormalisedWeight
    /\ frames # frames0
    /\ call.weight # OneHot(c)
    /\ call.ret.ok /\ c.N >= 2 /\ c.H >= 2
    /\ call.ret # ValuePoints(m, single_rep)

\* C14: frame_weight returns one score per (head, query residue, key
\* residue) triple, H * N * N entries on three axes, for every N, H and P_q
\* from 1 up.
FrameWeightAxes ==
    call.op = "frame_weight" =>
        /\ call.ret.ok
        /\ Rank(call.ret) = 3
        /\ Prod(call.ret.shape) = c.H * c.N * c.N

\* C12: in a sequence of run calls (each call of run starts after the one
\* before it has ended, and nothing else is called), once a run for an id
\* has returned a result, every later run for that id returns a result without invoking jackhmmer and without any
\* file operation; and after every run that returns a result, <id>.sto.gz
\* exists and <id>.sto and <id>.sto.tmp do not.
CacheHitsStay ==
    [][(msa_call'.seq # msa_call.seq /\ msa_call'.op = "run" /\ sequential') =>
           /\ msa_call'.id \in returned =>
                  /\ msa_call'.result \in {"zip_result", "content"}
                  /\ ~msa_call'.jackhmmer /\ jackhmmer_calls' = jackhmmer_calls
                  /\ msa_call'.ops = <<>>
                  /\ cache_dir' = cache_dir
           /\ msa_call'.result \in {"zip_result", "content"} =>
                  /\ cache_dir'[msa_call'.id].gz # "absent"
                  /\ cache_dir'[msa_call'.id].sto = "absent"
                  /\ cache_dir'[msa_call'.id].tmp = "absent"]_vars

\* C12 witness: in a sequence of three run calls for one id, the first
\* invoked jackhmmer and returned no result, the second invoked jackhmmer
\* again and returned one, and the third is a cache hit
CacheHitsStayWitness ==
    /\ sequential
    /\ msa_call.seq = 3
    /\ msa_call.op = "run"
    /\ msa_call.id \in returned
    /\ msa_call.result = "zip_result" /\ ~msa_call.jackhmmer
    /\ jackhmmer_calls[msa_call.id] = 2
    /\ \A id \in Ids \ {msa_call.id} : jackhmmer_calls[id] = 0 /\ cache_dir[id] = NoFiles
    /\ InFlight = {}

\* C13: in one forward call the structure module is given the ground-truth
\* Frame exactly on the final recycle iteration of a batch that contains
\* "translations", and None on every other iteration; the call makes one
\* structure-module call per iteration, and the distogram loss it returns is
\* None exactly when "translations" is absent.
GroundTruthOnlyLast ==
    fwd.pc \in {"loop", "raised", "done"} =>
        /\ \A k \in 1..Len(fwd.given) :
               /\ fwd.given[k].i = k - 1
               /\ fwd.given[k].frames \in {"Frame", "None"}
               /\ fwd.given[k].frames = "Frame" <=>
                      (k = fwd.num_recycle /\ "translations" \in batch)
        /\ fwd.pc = "done" =>
               /\ Len(fwd.given) = fwd.num_recycle
               /\ fwd.ret.dist_loss = "None" <=> "translations" \notin batch

\* C13 witness: a training call of at least two iterations has returned,
\* with the ground truth given on the last one
GroundTruthOnlyLastWitness ==
    /\ fwd.pc = "done" /\ nanofold.training
    /\ fwd.num_recycle >= 2 /\ fwd.num_recycle < nanofold.num_recycle
    /\ "translations" \in batch
    /\ fwd.given[fwd.num_recycle].frames = "Frame"
    /\ fwd.given[1].frames = "None"
    /\ fwd.ret.dist_loss # "None"

====
